---------------------------- MODULE Spec2Model ----------------------------
(***************************************************************************)
(* A model of rustitor (src/src/main.rs): a terminal text editor.          *)
(*                                                                         *)
(* Two state machines over the InputSeq alphabet:                          *)
(*   Spec         main(): open the file, enter raw mode, Editor::run's     *)
(*                loop over decoded input events, and the teardown;        *)
(*   DecoderSpec  InputSequences::read_seq / decode, one action per read   *)
(*                of stdin, on arbitrary bytes and read timeouts.          *)
(*                                                                         *)
(* Characters are their byte values (all key input is ASCII, so            *)
(* String::len() is the number of characters).  Rows loaded from a file    *)
(* are ASCII as well; non-ASCII file content is outside this model.        *)
(* term_size::dimensions_stdout() is taken to answer Some((w, h)) with     *)
(* w >= 1 and h >= 3, so that ensure_screen_size returns at once.          *)
(* Panics unwind (the default panic strategy), and the tcsetattr call of   *)
(* Drop for StdinRawMode is taken to succeed.                              *)
(***************************************************************************)
EXTENDS Integers, Sequences, FiniteSets, TLC

VARIABLES
    editor,     \* struct Editor (the fields that are not I/O handles); Gone
                \* once main has returned and the value is dropped
    pc,         \* position of main(): "main", "opened", "run", "loop",
                \* "clear" (the loop was left by break), "exit"
    exit,       \* how the process ended: "none", "ok", "err", "panic"
    termios,    \* terminal mode of stdin: "orig" or "raw"
    guard,      \* the StdinRawMode value: "none", "live", "dropped"
    acquired,   \* number of successful tcsetattr(raw) calls
    restored,   \* number of tcsetattr(orig) calls made by Drop
    last_quit,  \* whether the most recently dispatched event was Ctrl-Q
    drew,       \* whether the latest iteration called refresh_screen
    cursor,     \* terminal cursor position written by the latest refresh_screen
    next_byte,  \* InputSequences.next_byte, the pushback slot (0: empty)
    dpc,        \* position of the decoder: "read_seq", "esc", "csi", "csiO",
                \* "panic", "err"
    csi_buf,    \* decode's local buf, kept after the event is returned
    cmd,        \* decode's local cmd (0: the latest event was no CSI sequence)
    out,        \* the latest item read_seq returned (NoSeq while it decodes)
    last_read,  \* what the latest read of stdin delivered: a byte, or TimedOut
    silent,     \* whether stdin has fallen silent: no byte will arrive any more
    spin,       \* parity of the reads that timed out in the current call of
                \* read_blocking
    r_row,      \* RowSpec: the Row under test
    r_at,       \* RowSpec: the column argument
    r_orig,     \* RowSpec: the content of the row when it was constructed
    r_rx,       \* RowSpec: the latest result of rx_from_cx
    rpc,        \* RowSpec: "idle", "new", "inserted", "deleted", "measured"
    e_orig,     \* EditSpec: the Editor value the events were applied to
    e_ops       \* EditSpec: the events dispatched so far

evars == <<editor, pc, exit, termios, guard, acquired, restored,
           last_quit, drew, cursor>>

dvars == <<next_byte, dpc, csi_buf, cmd, out, last_read, silent, spin>>

rvars == <<r_row, r_at, r_orig, r_rx, rpc>>

hvars == <<e_orig, e_ops>>

vars == <<evars, dvars, rvars, hvars>>

-----------------------------------------------------------------------------
(* Bounds of the model *)

MaxRows == 2
MaxChars == 2

(* Program constants *)

TAB_STOP == 8
TAB == 9
SPACE == 32
ESC == 27
DEL == 127
BS == 8
CR == 13

\* the result of a read of stdin that delivered no byte (read returned 0,
\* line 98): not a byte value
TimedOut == 256

(* Byte value of an ASCII character the source names *)
Ch(c) ==
    CASE c = "a" -> 97  [] c = "b" -> 98  [] c = "c" -> 99  [] c = "d" -> 100
      [] c = "e" -> 101 [] c = "f" -> 102 [] c = "g" -> 103 [] c = "h" -> 104
      [] c = "i" -> 105 [] c = "l" -> 108 [] c = "m" -> 109 [] c = "n" -> 110
      [] c = "p" -> 112 [] c = "q" -> 113 [] c = "s" -> 115 [] c = "x" -> 120
      [] c = "y" -> 121
      [] c = "A" -> 65  [] c = "B" -> 66  [] c = "C" -> 67  [] c = "D" -> 68
      [] c = "F" -> 70  [] c = "H" -> 72  [] c = "J" -> 74  [] c = "K" -> 75
      [] c = "O" -> 79  [] c = "R" -> 82
      [] c = "[" -> 91  [] c = "~" -> 126 [] c = ";" -> 59
      [] c = "0" -> 48  [] c = "1" -> 49  [] c = "2" -> 50  [] c = "3" -> 51
      [] c = "4" -> 52  [] c = "5" -> 53  [] c = "6" -> 54  [] c = "7" -> 55
      [] c = "8" -> 56  [] c = "9" -> 57

-----------------------------------------------------------------------------
(* enum InputSeq *)

Unidentified == <<"Unidentified">>
Key(b, ctrl) == <<"Key", b, ctrl>>
LeftKey == <<"LeftKey">>
RightKey == <<"RightKey">>
UpKey == <<"UpKey">>
DownKey == <<"DownKey">>
PageUpKey == <<"PageUpKey">>
PageDownKey == <<"PageDownKey">>
HomeKey == <<"HomeKey">>
EndKey == <<"EndKey">>
DeleteKey == <<"DeleteKey">>
Cursor(r, c) == <<"Cursor", r, c>>

IsKey(s) == s[1] = "Key"

-----------------------------------------------------------------------------
(* struct Row *)

RECURSIVE pad_tab(_, _)
\* the inner loop of update_render: push ' ' until index % TAB_STOP = 0
pad_tab(render, index) ==
    LET r1 == Append(render, SPACE)
        i1 == index + 1
    IN  IF i1 % TAB_STOP = 0 THEN <<r1, i1>> ELSE pad_tab(r1, i1)

RECURSIVE render_loop(_, _, _, _)
\* the outer loop of update_render over buf.chars(), from position k
render_loop(buf, k, render, index) ==
    IF k > Len(buf) THEN render
    ELSE IF buf[k] = TAB
         THEN LET p == pad_tab(render, index)
              IN  render_loop(buf, k + 1, p[1], p[2])
         ELSE render_loop(buf, k + 1, Append(render, buf[k]), index + 1)

update_render(row) == [row EXCEPT !.render = render_loop(row.buf, 1, <<>>, 0)]

Row_new(line) == update_render([buf |-> line, render |-> <<>>])

Row_empty == [buf |-> <<>>, render |-> <<>>]

RECURSIVE rx_fold(_, _, _, _)
\* buf.chars().take(cx).fold(0, ..), from position k with accumulator rx
rx_fold(buf, cx, k, rx) ==
    IF k > Len(buf) \/ k > cx THEN rx
    ELSE rx_fold(buf, cx, k + 1,
                 IF buf[k] = TAB THEN rx + TAB_STOP - (rx % TAB_STOP) ELSE rx + 1)

\* rx_from_cx with a tab counted as one column
rx_from_cx_TabAsOne(row, cx) == IF cx < Len(row.buf) THEN cx ELSE Len(row.buf)

rx_from_cx(row, cx) == rx_fold(row.buf, cx, 1, 0)

\* String::insert(at, c) with at < len (0-based)
StrInsert(s, at, c) == SubSeq(s, 1, at) \o <<c>> \o SubSeq(s, at + 1, Len(s))

\* String::remove(at) with at < len (0-based)
StrRemove(s, at) == SubSeq(s, 1, at) \o SubSeq(s, at + 2, Len(s))

\* insert_char without the call of update_render (line 277)
Row_insert_char_Stale(row, at, c) ==
    [row EXCEPT !.buf =
        IF Len(row.buf) <= at THEN Append(row.buf, c) ELSE StrInsert(row.buf, at, c)]

Row_insert_char(row, at, c) ==
    update_render([row EXCEPT !.buf =
        IF Len(row.buf) <= at THEN Append(row.buf, c) ELSE StrInsert(row.buf, at, c)])

Row_delete_char(row, at) ==
    IF at < Len(row.buf)
    THEN update_render([row EXCEPT !.buf = StrRemove(row.buf, at)])
    ELSE row

Row_append(row, s) ==
    IF s = <<>> THEN row
    ELSE update_render([row EXCEPT !.buf = row.buf \o s])

Row_truncate(row, at) ==
    IF at < Len(row.buf)
    THEN update_render([row EXCEPT !.buf = SubSeq(row.buf, 1, at)])
    ELSE row

\* Vec::insert(at, x) and Vec::remove(at), 0-based
VecInsert(v, at, x) == SubSeq(v, 1, at) \o <<x>> \o SubSeq(v, at + 1, Len(v))
VecRemove(v, at) == SubSeq(v, 1, at) \o SubSeq(v, at + 2, Len(v))

\* self.row[i] of the source (0-based)
RowAt(e, i) == e.row[i + 1]
RowLen(e, i) == Len(RowAt(e, i).buf)
SetRow(e, i, r) == [e EXCEPT !.row[i + 1] = r]

-----------------------------------------------------------------------------
(* struct Editor *)

Min(a, b) == IF a < b THEN a ELSE b

Editor_new(w, h) ==
    [ file |-> FALSE,
      cx |-> 0, cy |-> 0, rx |-> 0,
      screen_cols |-> w,
      screen_rows |-> IF h >= 2 THEN h - 2 ELSE 0,
      row |-> <<>>,
      rowoff |-> 0, coloff |-> 0,
      message |-> <<"HELP: Ctrl-S = save | Ctrl-Q = quit">>,
      dirty |-> FALSE,
      quitting |-> FALSE ]

RECURSIVE push_lines(_, _, _)
push_lines(rows, lines, k) ==
    IF k > Len(lines) THEN rows
    ELSE push_lines(Append(rows, Row_new(lines[k])), lines, k + 1)

\* open_file when every read succeeds
open_file(e, lines) ==
    [e EXCEPT !.row = push_lines(e.row, lines, 1), !.file = TRUE, !.dirty = FALSE]

\* save: fs_ok says whether create/write/flush all succeed.  The message
\* "{} bytes written to {}" is kept without its numbers.
save(e, fs_ok) ==
    IF ~e.file
    THEN [e |-> [e EXCEPT !.message = <<"Cannot save unnamed buffer">>], ret |-> "ok"]
    ELSE IF ~fs_ok
    THEN [e |-> e, ret |-> "err"]
    ELSE [e |-> [e EXCEPT !.message = <<"bytes written">>,
                          !.dirty = FALSE],
          ret |-> "ok"]

\* setup_scroll without its last adjustment (lines 523-525)
setup_scroll_NoScrollRight(e) ==
    LET e1 == [e EXCEPT !.rx = IF e.cy < Len(e.row)
                                 THEN rx_from_cx(RowAt(e, e.cy), e.cx) ELSE 0]
        e2 == IF e1.cy < e1.rowoff THEN [e1 EXCEPT !.rowoff = e1.cy] ELSE e1
        e3 == IF e2.cy >= e2.rowoff + e2.screen_rows
              THEN [e2 EXCEPT !.rowoff = e2.cy - e2.screen_rows + 1] ELSE e2
    IN  IF e3.rx < e3.coloff THEN [e3 EXCEPT !.coloff = e3.rx] ELSE e3

\* setup_scroll that puts the cursor row on the top line whenever it is
\* below it (cy > rowoff instead of the test of line 516)
setup_scroll_CursorOnTop(e) ==
    LET e1 == [e EXCEPT !.rx = IF e.cy < Len(e.row)
                                 THEN rx_from_cx(RowAt(e, e.cy), e.cx) ELSE 0]
        e2 == IF e1.cy < e1.rowoff THEN [e1 EXCEPT !.rowoff = e1.cy] ELSE e1
        e3 == IF e2.cy > e2.rowoff THEN [e2 EXCEPT !.rowoff = e2.cy] ELSE e2
        e4 == IF e3.rx < e3.coloff THEN [e3 EXCEPT !.coloff = e3.rx] ELSE e3
    IN  IF e4.rx >= e4.coloff + e4.screen_cols
        THEN [e4 EXCEPT !.coloff = e4.rx - e4.screen_cols + 1] ELSE e4

setup_scroll(e) ==
    LET e1 == [e EXCEPT !.rx = IF e.cy < Len(e.row)
                                 THEN rx_from_cx(RowAt(e, e.cy), e.cx) ELSE 0]
        e2 == IF e1.cy < e1.rowoff THEN [e1 EXCEPT !.rowoff = e1.cy] ELSE e1
        e3 == IF e2.cy >= e2.rowoff + e2.screen_rows
              THEN [e2 EXCEPT !.rowoff = e2.cy - e2.screen_rows + 1] ELSE e2
        e4 == IF e3.rx < e3.coloff THEN [e3 EXCEPT !.coloff = e3.rx] ELSE e3
    IN  IF e4.rx >= e4.coloff + e4.screen_cols
        THEN [e4 EXCEPT !.coloff = e4.rx - e4.screen_cols + 1] ELSE e4

Editor_insert_char(e, ch) ==
    LET e1 == IF e.cy = Len(e.row) THEN [e EXCEPT !.row = Append(e.row, Row_empty)]
              ELSE e
        e2 == SetRow(e1, e1.cy, Row_insert_char(RowAt(e1, e1.cy), e1.cx, ch))
    IN  [e2 EXCEPT !.cx = e2.cx + 1, !.dirty = TRUE]

Editor_delete_char(e) ==
    IF e.cy = Len(e.row) \/ (e.cx = 0 /\ e.cy = 0) THEN e
    ELSE IF e.cx > 0
    THEN [SetRow(e, e.cy, Row_delete_char(RowAt(e, e.cy), e.cx - 1))
            EXCEPT !.cx = e.cx - 1, !.dirty = TRUE]
    ELSE LET cx1 == RowLen(e, e.cy - 1)
             removed == RowAt(e, e.cy)
             e1 == [e EXCEPT !.cx = cx1, !.row = VecRemove(e.row, e.cy),
                             !.cy = e.cy - 1]
         IN  [SetRow(e1, e1.cy, Row_append(RowAt(e1, e1.cy), removed.buf))
                EXCEPT !.dirty = TRUE]

\* insert_line without the truncation of the row that is split (line 560)
insert_line_KeepTail(e) ==
    LET e1 ==
          IF e.cy >= Len(e.row)
          THEN [e EXCEPT !.row = Append(e.row, Row_new(<<>>))]
          ELSE IF e.cx >= RowLen(e, e.cy)
          THEN [e EXCEPT !.row = VecInsert(e.row, e.cy + 1, Row_new(<<>>))]
          ELSE LET b == RowAt(e, e.cy).buf
                   split == SubSeq(b, e.cx + 1, Len(b))
               IN  [e EXCEPT !.row = VecInsert(e.row, e.cy + 1, Row_new(split))]
    IN  [e1 EXCEPT !.cy = e.cy + 1, !.cx = 0]

insert_line(e) ==
    LET e1 ==
          IF e.cy >= Len(e.row)
          THEN [e EXCEPT !.row = Append(e.row, Row_new(<<>>))]
          ELSE IF e.cx >= RowLen(e, e.cy)
          THEN [e EXCEPT !.row = VecInsert(e.row, e.cy + 1, Row_new(<<>>))]
          ELSE LET b == RowAt(e, e.cy).buf
                   split == SubSeq(b, e.cx + 1, Len(b))
                   t == SetRow(e, e.cy, Row_truncate(RowAt(e, e.cy), e.cx))
               IN  [t EXCEPT !.row = VecInsert(t.row, e.cy + 1, Row_new(split))]
    IN  [e1 EXCEPT !.cy = e.cy + 1, !.cx = 0]

\* move_cursor with Left stopping at column 0 (lines 573-576 left out)
move_cursor_NoWrap(e, dir) ==
    LET e1 ==
          CASE dir = "Up" -> [e EXCEPT !.cy = IF e.cy >= 1 THEN e.cy - 1 ELSE 0]
            [] dir = "Left" ->
                 IF e.cx > 0 THEN [e EXCEPT !.cx = e.cx - 1] ELSE e
            [] dir = "Down" ->
                 IF e.cy < Len(e.row) THEN [e EXCEPT !.cy = e.cy + 1] ELSE e
            [] dir = "Right" ->
                 IF e.cy < Len(e.row)
                 THEN IF e.cx < RowLen(e, e.cy)
                      THEN [e EXCEPT !.cx = e.cx + 1]
                      ELSE [e EXCEPT !.cy = e.cy + 1, !.cx = 0]
                 ELSE e
        len == IF e1.cy < Len(e1.row) THEN RowLen(e1, e1.cy) ELSE 0
    IN  IF e1.cx > len THEN [e1 EXCEPT !.cx = len] ELSE e1

move_cursor(e, dir) ==
    LET e1 ==
          CASE dir = "Up" -> [e EXCEPT !.cy = IF e.cy >= 1 THEN e.cy - 1 ELSE 0]
            [] dir = "Left" ->
                 IF e.cx > 0 THEN [e EXCEPT !.cx = e.cx - 1]
                 ELSE IF e.cy > 0
                 THEN [e EXCEPT !.cy = e.cy - 1, !.cx = RowLen(e, e.cy - 1)]
                 ELSE e
            [] dir = "Down" ->
                 IF e.cy < Len(e.row) THEN [e EXCEPT !.cy = e.cy + 1] ELSE e
            [] dir = "Right" ->
                 IF e.cy < Len(e.row)
                 THEN IF e.cx < RowLen(e, e.cy)
                      THEN [e EXCEPT !.cx = e.cx + 1]
                      ELSE [e EXCEPT !.cy = e.cy + 1, !.cx = 0]
                 ELSE e
        len == IF e1.cy < Len(e1.row) THEN RowLen(e1, e1.cy) ELSE 0
    IN  IF e1.cx > len THEN [e1 EXCEPT !.cx = len] ELSE e1

RECURSIVE move_times(_, _, _)
\* for _ in 0..n { self.move_cursor(dir) }
move_times(e, dir, n) ==
    IF n = 0 THEN e ELSE move_times(move_cursor(e, dir), dir, n - 1)


CtrlKey(c) == Key(Ch(c), TRUE)

\* the match of process_keypress, first arm that matches; fs_ok is the
\* outcome of the file system calls of save().  ret: "fall" (the arm ends and
\* control reaches line 652), "false" (return Ok(false)), "true" (return
\* Ok(true)), "err" (Err propagated by ?), "panic" (unreachable!())
match_seq(e, s, fs_ok) ==
    LET fall(e1) == [e |-> e1, ret |-> "fall"]
    IN
    IF s = CtrlKey("p") \/ s = UpKey THEN fall(move_cursor(e, "Up"))
    ELSE IF s = CtrlKey("b") \/ s = LeftKey THEN fall(move_cursor(e, "Left"))
    ELSE IF s = CtrlKey("n") \/ s = DownKey THEN fall(move_cursor(e, "Down"))
    ELSE IF s = CtrlKey("f") \/ s = RightKey THEN fall(move_cursor(e, "Right"))
    ELSE IF s = PageUpKey
    THEN fall(move_times([e EXCEPT !.cy = e.rowoff], "Up", e.screen_rows))
    ELSE IF s = PageDownKey
    THEN fall(move_times(
                [e EXCEPT !.cy = Min(e.rowoff + e.screen_rows - 1, Len(e.row))],
                "Down", e.screen_rows))
    ELSE IF s = CtrlKey("a") \/ s = HomeKey THEN fall([e EXCEPT !.cx = 0])
    ELSE IF s = CtrlKey("e") \/ s = EndKey
    THEN fall(IF e.cy < Len(e.row) THEN [e EXCEPT !.cx = e.screen_cols - 1] ELSE e)
    ELSE IF s = DeleteKey \/ s = CtrlKey("d")
    THEN fall(Editor_delete_char(move_cursor(e, "Right")))
    ELSE IF s = CtrlKey("q")
    THEN IF e.quitting
         THEN [e |-> e, ret |-> "true"]
         ELSE [e |-> [e EXCEPT !.quitting = TRUE,
                        !.message = <<"File has unsaved changes! Press Ctrl-Q again to quit">>],
               ret |-> "false"]
    ELSE IF s = Key(CR, FALSE) \/ s = CtrlKey("m") THEN fall(insert_line(e))
    ELSE IF s = CtrlKey("h") \/ s = Key(BS, FALSE) \/ s = Key(DEL, FALSE)
    THEN fall(Editor_delete_char(e))
    ELSE IF s = CtrlKey("l") \/ s = Key(ESC, FALSE) THEN fall(e)
    ELSE IF s = CtrlKey("s")
    THEN LET r == save(e, fs_ok)
         IN  IF r.ret = "err" THEN [e |-> e, ret |-> "err"] ELSE fall(r.e)
    ELSE IF IsKey(s) /\ ~s[3] THEN fall(Editor_insert_char(e, s[2]))
    ELSE IF IsKey(s) THEN fall(e)
    ELSE [e |-> e, ret |-> "panic"]

\* lines 652-653 left out: the armed flag survives the next key
end_keypress_KeepArmed(r) ==
    IF r.ret = "fall" THEN [e |-> r.e, ret |-> "false"] ELSE r

\* lines 652-653, reached by every arm that does not return:
\* self.quitting = false; Ok(false)
end_keypress(r) ==
    IF r.ret = "fall" THEN [e |-> [r.e EXCEPT !.quitting = FALSE], ret |-> "false"]
    ELSE r

process_keypress(e, s, fs_ok) == end_keypress(match_seq(e, s, fs_ok))

\* the cursor position refresh_screen writes at the end of a frame
\* (cy - rowoff + 1, rx - coloff + 1), kept as integers: a value below 1 is
\* a usize subtraction that underflowed
refresh_screen(e) == <<e.cy - e.rowoff + 1, e.rx - e.coloff + 1>>

-----------------------------------------------------------------------------
(* Inputs of Spec *)

\* term_size::dimensions_stdout(): (w, h), h including the two bar lines
WindowSizes == {<<1, 3>>, <<3, 4>>}

\* characters of a loaded file, and the character typed in the model
FileChars == {Ch("a"), TAB}
TypedChar == Ch("a")

RECURSIVE SeqsUpTo(_, _)
\* sequences over S of length at most n
SeqsUpTo(S, n) ==
    IF n = 0 THEN {<<>>}
    ELSE LET shorter == SeqsUpTo(S, n - 1)
         IN  shorter \cup {Append(t, x) : t \in {u \in shorter : Len(u) = n - 1}, x \in S}

RECURSIVE TotalLen(_, _)
TotalLen(lines, k) ==
    IF k > Len(lines) THEN 0 ELSE Len(lines[k]) + TotalLen(lines, k + 1)

\* the files the model loads: at most MaxRows lines, MaxChars characters
Files ==
    {f \in SeqsUpTo(SeqsUpTo(FileChars, MaxChars), MaxRows) : TotalLen(f, 1) <= MaxChars}

Bufs(e) == [i \in 1..Len(e.row) |-> e.row[i].buf]

\* the buffer stays within the bounds of the model
WithinBounds(e) == Len(e.row) <= MaxRows /\ TotalLen(Bufs(e), 1) <= MaxChars

\* the events the decoder hands to the loop (one representative of the
\* plain keys that insert, one of the control keys without a binding, one
\* cursor position report)
InputSeqs ==
    {UpKey, DownKey, LeftKey, RightKey, PageUpKey, PageDownKey, HomeKey, EndKey,
     DeleteKey, Unidentified, Cursor(1, 1)}
    \cup {CtrlKey(c) : c \in {"p", "b", "n", "f", "a", "e", "d", "q", "m",
                              "h", "l", "s", "i"}}
    \cup {Key(TypedChar, FALSE), Key(DEL, FALSE), Key(ESC, FALSE)}

\* the value of `editor` after main has returned
Gone == [file |-> FALSE]

NoSeq == <<"None">>

-----------------------------------------------------------------------------
(* main and Editor::run *)

\* no Row is under test
RowIdle ==
    /\ r_row = Row_empty
    /\ r_at = 0
    /\ r_orig = <<>>
    /\ r_rx = 0
    /\ rpc = "idle"

\* no history of events is kept
NoHistory ==
    /\ e_orig = [file |-> FALSE]
    /\ e_ops = <<>>

\* input_keys, lines 39-44: InputSequences { next_byte: 0 }, nothing read yet
DecoderIdle ==
    /\ next_byte = 0
    /\ dpc = "read_seq"
    /\ csi_buf = <<>>
    /\ cmd = 0
    /\ out = NoSeq
    /\ last_read = TimedOut
    /\ silent = FALSE
    /\ spin = 0

\* main, line 705, and a decoder that has read nothing yet (the variables
\* of RowSpec apart)
InitWithout(ws) ==
    /\ editor = Editor_new(ws[1], ws[2])
    /\ pc = "main"
    /\ exit = "none"
    /\ termios = "orig"
    /\ guard = "none"
    /\ acquired = 0
    /\ restored = 0
    /\ last_quit = FALSE
    /\ drew = FALSE
    /\ cursor = <<1, 1>>
    /\ DecoderIdle

\* the same, with no Row under test
InitWith(ws) == InitWithout(ws) /\ RowIdle /\ NoHistory

Init == \E ws \in WindowSizes : InitWith(ws)

\* the StdinRawMode value goes out of scope with no tcsetattr call
drop_StdinRawMode_NoRestore ==
    /\ guard' = "dropped"
    /\ UNCHANGED <<termios, restored>>

\* Drop for StdinRawMode: tcsetattr(fd, TCSAFLUSH, orig)
drop_StdinRawMode ==
    /\ guard' = "dropped"
    /\ termios' = "orig"
    /\ restored' = restored + 1

\* run returns Err (or unwinds) and main ends: the iterator that owns the
\* StdinRawMode is dropped, and so is the Editor
Leave(how) ==
    /\ pc' = "exit"
    /\ exit' = how
    /\ editor' = Gone
    /\ drop_StdinRawMode
    /\ UNCHANGED acquired

\* main, lines 706-708: no argument, or open_file(arg)
Main_OpenFile ==
    /\ pc = "main"
    /\ \/ /\ editor' = editor
          /\ pc' = "opened" /\ exit' = exit
       \/ \E f \in Files :
             /\ editor' = open_file(editor, f)
             /\ pc' = "opened" /\ exit' = exit
       \/ /\ editor' = Gone
          /\ pc' = "exit" /\ exit' = "err"
    /\ UNCHANGED <<termios, guard, acquired, restored, last_quit, drew, cursor>>
    /\ UNCHANGED <<dvars, rvars, hvars>>

\* StdinRawMode::new()?: Termios::from_fd or tcsetattr fails, or raw mode is set
Main_RawMode ==
    /\ pc = "opened"
    /\ \/ /\ termios' = "raw" /\ guard' = "live" /\ acquired' = acquired + 1
          /\ pc' = "run" /\ exit' = exit /\ editor' = editor
       \/ /\ UNCHANGED <<termios, guard, acquired>>
          /\ pc' = "exit" /\ exit' = "err" /\ editor' = Gone
    /\ UNCHANGED <<restored, last_quit, drew, cursor>>
    /\ UNCHANGED <<dvars, rvars, hvars>>

\* run, lines 683-686: ensure_screen_size returns at once, setup_scroll,
\* refresh_screen (out_ok: the write to stdout succeeds)
Run_Begin ==
    /\ pc = "run"
    /\ \E e1 \in {setup_scroll(editor)} :
          /\ cursor' = refresh_screen(e1)
          /\ drew' = TRUE
          /\ \E out_ok \in BOOLEAN :
                IF out_ok
                THEN /\ pc' = "loop" /\ editor' = e1
                     /\ UNCHANGED <<exit, termios, guard, acquired, restored>>
                ELSE Leave("err")
    /\ UNCHANGED last_quit
    /\ UNCHANGED <<dvars, rvars, hvars>>

\* the test of line 690 left out: Unidentified reaches process_keypress
skip_unidentified_Never(s) == FALSE

\* run, line 690: seq == InputSeq::Unidentified
skip_unidentified(s) == s = Unidentified

\* one iteration of the for loop of run on item Ok(s), lines 688-698: an
\* Unidentified item is skipped (continue); on break the iterator is dropped
\* as the loop ends
Run_Step(s) ==
    /\ pc = "loop"
    /\ IF skip_unidentified(s)
       THEN /\ drew' = FALSE
            /\ UNCHANGED <<editor, pc, exit, termios, guard, acquired, restored,
                           last_quit, cursor>>
       ELSE \E fs_ok \in (IF s = CtrlKey("s") THEN BOOLEAN ELSE {TRUE}) :
            \E r \in {process_keypress(editor, s, fs_ok)} :
               /\ WithinBounds(r.e)
               /\ last_quit' = (s = CtrlKey("q"))
               /\ IF r.ret = "false"
                  THEN \E e1 \in {setup_scroll(r.e)} :
                          /\ cursor' = refresh_screen(e1)
                          /\ drew' = TRUE
                          /\ \E out_ok \in BOOLEAN :
                                IF out_ok
                                THEN /\ editor' = e1
                                     /\ UNCHANGED <<pc, exit, termios, guard,
                                                    acquired, restored>>
                                ELSE Leave("err")
                  ELSE /\ UNCHANGED cursor
                       /\ drew' = FALSE
                       /\ IF r.ret = "true"
                          THEN /\ pc' = "clear"
                               /\ editor' = r.e
                               /\ drop_StdinRawMode
                               /\ UNCHANGED <<exit, acquired>>
                          ELSE Leave(r.ret)
    /\ UNCHANGED <<dvars, rvars>>

\* the item is any event the decoder can hand over
Run_Dispatch == \E s \in InputSeqs : Run_Step(s) /\ UNCHANGED hvars

\* the iterator yields Err (a failed read): seq? returns it from run
Run_ReadError ==
    /\ pc = "loop"
    /\ Leave("err")
    /\ UNCHANGED <<last_quit, drew, cursor>>
    /\ UNCHANGED <<dvars, rvars, hvars>>

\* run, line 700, and the end of main: clear_screen and the return
Run_End ==
    /\ pc = "clear"
    /\ \E out_ok \in BOOLEAN :
          /\ pc' = "exit"
          /\ exit' = IF out_ok THEN "ok" ELSE "err"
          /\ editor' = Gone
    /\ UNCHANGED <<termios, guard, acquired, restored, last_quit, drew, cursor>>
    /\ UNCHANGED <<dvars, rvars, hvars>>

Next ==
    \/ Main_OpenFile \/ Main_RawMode \/ Run_Begin \/ Run_Dispatch
    \/ Run_ReadError \/ Run_End

Spec == Init /\ [][Next]_vars

-----------------------------------------------------------------------------
(* struct InputSequences: read_seq and decode, one action per read *)

MaxBuf == 3

\* the bytes a read of stdin can deliver in the model; 0 is what read()
\* leaves in one_byte when the read times out (or a NUL byte)
Bytes ==
    {0, CR, ESC, 128}
    \cup {Ch(c) : c \in {"A", "B", "C", "D", "F", "H", "R", "~", "K", "m", "O",
                         "[", ";", "x", "1", "2", "3", "4", "5", "6", "7", "8"}}

\* the bytes that end the loop of decode, lines 121-122
Terminators ==
    {Ch(c) : c \in {"A", "B", "C", "D", "F", "H", "K", "J", "R", "c", "f", "g",
                    "h", "l", "m", "n", "q", "y", "~"}}

\* what a read of stdin can deliver: a byte, or nothing within the timeout
Reads == Bytes \cup {TimedOut}

\* what the next read of stdin can deliver
StdinReads == IF silent THEN {TimedOut} ELSE Reads

\* one_byte[0] after the read, lines 90-92: 0 unless a byte arrived
one_byte(r) == IF r = TimedOut THEN 0 ELSE r

Panic == <<"panic">>
IoError == <<"Err">>
None == -1

RECURSIVE split(_, _, _)
\* buf.split(|b| *b == b';'): the items from position k on, cur being the
\* item under construction
split(b, k, cur) ==
    IF k > Len(b) THEN <<cur>>
    ELSE IF b[k] = Ch(";") THEN <<cur>> \o split(b, k + 1, <<>>)
    ELSE split(b, k + 1, Append(cur, b[k]))

IsDigit(b) == Ch("0") <= b /\ b <= Ch("9")

RECURSIVE digits_value(_, _)
digits_value(a, k) ==
    IF k = 0 THEN 0 ELSE 10 * digits_value(a, k - 1) + (a[k] - Ch("0"))

\* str::from_utf8(b).ok().and_then(|s| s.parse::<usize>().ok()) on the bytes
\* of the model (no sign, no overflow): None unless a non-empty digit string
parse_usize(a) ==
    IF a # <<>> /\ \A k \in 1..Len(a) : IsDigit(a[k])
    THEN digits_value(a, Len(a)) ELSE None

\* i.next() of lines 138-140: the k-th item parsed, or "end" past the last
parsed_arg(args, k) == IF k <= Len(args) THEN parse_usize(args[k]) ELSE None

\* decode, lines 135-163, on the terminator c and the collected bytes b
csi_event(c, b) ==
    LET args == split(b, 1, <<>>)
    IN  IF c = Ch("R")
        THEN IF parsed_arg(args, 1) # None /\ parsed_arg(args, 2) # None
             THEN Cursor(parsed_arg(args, 1), parsed_arg(args, 2))
             ELSE Unidentified
        ELSE IF c = Ch("A") THEN UpKey
        ELSE IF c = Ch("B") THEN DownKey
        ELSE IF c = Ch("C") THEN RightKey
        ELSE IF c = Ch("D") THEN LeftKey
        ELSE IF c = Ch("~")
        THEN IF args[1] = <<Ch("5")>> THEN PageUpKey
             ELSE IF args[1] = <<Ch("6")>> THEN PageDownKey
             ELSE IF args[1] = <<Ch("1")>> \/ args[1] = <<Ch("7")>> THEN HomeKey
             ELSE IF args[1] = <<Ch("4")>> \/ args[1] = <<Ch("8")>> THEN EndKey
             ELSE IF args[1] = <<Ch("3")>> THEN DeleteKey
             ELSE Unidentified
        ELSE IF c = Ch("H") THEN HomeKey
        ELSE IF c = Ch("F") THEN EndKey
        ELSE Panic

\* decode, lines 105-106 and 165-167: the first byte of an event
decode_first(b) ==
    IF b = ESC THEN <<"esc">>
    ELSE IF 32 <= b /\ b <= 127 THEN Key(b, FALSE)
    ELSE IF 1 <= b /\ b <= 31 THEN Key(b + 96, TRUE)   \* b | 0b1100000
    ELSE Unidentified

\* decode returns the event of a CSI sequence, or panics at line 162
Finish(c, b) ==
    /\ cmd' = c
    /\ csi_buf' = <<>>
    /\ \E ev \in {csi_event(c, b)} :
          /\ out' = ev
          /\ dpc' = IF ev = Panic THEN "panic" ELSE "read_seq"
    /\ UNCHANGED next_byte

\* read_seq, lines 172-179, and decode up to its first read
D_ReadSeq ==
    /\ dpc = "read_seq"
    /\ \E r \in (IF next_byte = 0 THEN StdinReads ELSE {next_byte}) :
       \E b \in {one_byte(r)} :
          /\ last_read' = IF next_byte = 0 THEN r ELSE last_read
          /\ next_byte' = 0
          /\ cmd' = 0
          /\ csi_buf' = <<>>
          /\ IF decode_first(b) = <<"esc">>
             THEN dpc' = "esc" /\ out' = NoSeq
             ELSE dpc' = "read_seq" /\ out' = decode_first(b)
    /\ UNCHANGED <<silent, spin>>
    /\ UNCHANGED <<evars, rvars, hvars>>

\* decode, lines 108-115: the read() after ESC
D_Esc ==
    /\ dpc = "esc"
    /\ \E r \in StdinReads :
       \E b \in {one_byte(r)} :
          /\ last_read' = r
          /\ IF b = Ch("[")
             THEN dpc' = "csi" /\ UNCHANGED <<next_byte, out>>
             ELSE /\ dpc' = "read_seq"
                  /\ out' = Key(ESC, FALSE)
                  /\ next_byte' = IF b = 0 THEN next_byte ELSE b
    /\ UNCHANGED <<csi_buf, cmd, silent, spin>>
    /\ UNCHANGED <<evars, rvars, hvars>>

\* decode, lines 119-132: read_blocking returns b in the loop
D_Csi ==
    /\ dpc = "csi"
    /\ ~silent
    /\ spin' = 0
    /\ UNCHANGED silent
    /\ \E b \in Bytes :
          /\ last_read' = b
          /\ IF b \in Terminators
             THEN Finish(b, csi_buf)
             ELSE /\ Len(csi_buf) < MaxBuf
                  /\ csi_buf' = Append(csi_buf, b)
                  /\ dpc' = IF b = Ch("O") THEN "csiO" ELSE "csi"
                  /\ UNCHANGED <<next_byte, cmd, out>>
    /\ UNCHANGED <<evars, rvars, hvars>>

\* decode, lines 125-129: the read_blocking after 'O'
D_CsiO ==
    /\ dpc = "csiO"
    /\ ~silent
    /\ spin' = 0
    /\ UNCHANGED silent
    /\ \E b \in Bytes :
          /\ last_read' = b
          /\ IF b = Ch("F") \/ b = Ch("H")
             THEN Finish(b, csi_buf)
             ELSE /\ Len(csi_buf) < MaxBuf
                  /\ csi_buf' = Append(csi_buf, b)
                  /\ dpc' = "csi"
                  /\ UNCHANGED <<next_byte, cmd, out>>
    /\ UNCHANGED <<evars, rvars, hvars>>

\* read_blocking, lines 97-101: the read times out and the loop goes round
D_Wait ==
    /\ dpc \in {"csi", "csiO"}
    /\ last_read' = TimedOut
    /\ spin' = 1 - spin
    /\ UNCHANGED <<next_byte, dpc, csi_buf, cmd, out, silent>>
    /\ UNCHANGED <<evars, rvars, hvars>>

\* a read of stdin fails: ? returns the error from decode and read_seq
D_ReadError ==
    /\ dpc \in {"read_seq", "esc", "csi", "csiO"}
    /\ dpc = "read_seq" => next_byte = 0
    /\ dpc' = "err"
    /\ out' = IoError
    /\ UNCHANGED <<next_byte, csi_buf, cmd, last_read, silent, spin>>
    /\ UNCHANGED <<evars, rvars, hvars>>

DecoderNext == D_ReadSeq \/ D_Esc \/ D_Csi \/ D_CsiO \/ D_Wait \/ D_ReadError

\* the decoder alone, in a terminal of 80 columns and 24 lines
DecoderInit == InitWith(<<80, 24>>)

DecoderSpec == DecoderInit /\ [][DecoderNext]_vars

\* the terminal stops sending: from here on every read of stdin times out
D_Silence ==
    /\ ~silent
    /\ dpc \in {"read_seq", "esc", "csi", "csiO"}
    /\ silent' = TRUE
    /\ UNCHANGED <<next_byte, dpc, csi_buf, cmd, out, last_read, spin>>
    /\ UNCHANGED <<evars, rvars, hvars>>

ProgressNext == DecoderNext \/ D_Silence

\* the decoder on a stream that may fall silent.  Every read of stdin
\* returns within the timeout raw mode sets (VMIN = 0, VTIME = 1, lines
\* 31-32), so each step of the decoder is taken when it stays possible;
\* nothing makes the terminal send
ProgressSpec ==
    /\ DecoderInit
    /\ [][ProgressNext]_vars
    /\ WF_vars(D_ReadSeq)
    /\ WF_vars(D_Esc)
    /\ WF_vars(D_Csi)
    /\ WF_vars(D_CsiO)
    /\ WF_vars(D_Wait)

-----------------------------------------------------------------------------
(* struct Row alone: its methods applied to every row content of at most
   MaxLen characters and every column up to one past its end *)

MaxLen == 3

\* Row::new(line) for every line of the model, and a column
RowInit ==
    /\ \E ws \in {<<80, 24>>} : InitWithout(ws)
    /\ NoHistory
    /\ \E line \in SeqsUpTo(FileChars, MaxLen) :
          /\ r_row = Row_new(line)
          /\ r_orig = line
    /\ r_at \in 0..(MaxLen + 1)
    /\ r_rx = 0
    /\ rpc = "new"

\* Row::insert_char(at, c)
R_InsertChar ==
    /\ rpc = "new"
    /\ r_row' = Row_insert_char(r_row, r_at, TypedChar)
    /\ rpc' = "inserted"
    /\ UNCHANGED <<r_at, r_orig, r_rx, evars, dvars, hvars>>

\* Row::delete_char(at) as Editor::delete_char calls it with the cursor
\* at column r_at + 1: self.row[cy].delete_char(cx - 1), line 542
R_DeleteChar ==
    /\ rpc = "inserted"
    /\ r_row' = Row_delete_char(r_row, (r_at + 1) - 1)
    /\ rpc' = "deleted"
    /\ UNCHANGED <<r_at, r_orig, r_rx, evars, dvars, hvars>>

\* Row::rx_from_cx(cx)
R_RxFromCx ==
    /\ rpc = "new"
    /\ r_rx' = rx_from_cx(r_row, r_at)
    /\ rpc' = "measured"
    /\ UNCHANGED <<r_row, r_at, r_orig, evars, dvars, hvars>>

RowNext == R_InsertChar \/ R_DeleteChar \/ R_RxFromCx

RowSpec == RowInit /\ [][RowNext]_vars

-----------------------------------------------------------------------------
(* The loop of run from every loaded buffer and cursor position: one event
   is dispatched, and a delete-before event may follow it *)

\* the columns the cursor can be at in row cy: 0..len, and past the end of
\* the row where End has put it (screen_cols - 1, line 623)
CursorColumns(e, cy) ==
    IF cy < Len(e.row)
    THEN 0..RowLen(e, cy) \cup {e.screen_cols - 1}
    ELSE {0}

\* the Editor values reached by loading a file (or none), moving the cursor
\* down and right from (0, 0), and pressing End there
LoadedEditors ==
    UNION { { setup_scroll([e0 EXCEPT !.cy = p[1], !.cx = p[2]]) :
                p \in UNION { {<<cy, cx>> : cx \in CursorColumns(e0, cy)} :
                                cy \in 0..Len(e0.row) } } :
            e0 \in UNION { {Editor_new(ws[1], ws[2])}
                              \cup {open_file(Editor_new(ws[1], ws[2]), f) : f \in Files} :
                           ws \in WindowSizes } }

\* the events whose effect on buffer and cursor is followed
EditKeys ==
    {LeftKey, RightKey, HomeKey, EndKey, DeleteKey, CtrlKey("b"), CtrlKey("f"),
     CtrlKey("a"), CtrlKey("e"), CtrlKey("d"), CtrlKey("m"), CtrlKey("h"),
     Key(DEL, FALSE), Key(TypedChar, FALSE)}

\* run has drawn its first frame and waits for input
EditInit ==
    /\ editor \in LoadedEditors
    /\ pc = "loop"
    /\ exit = "none"
    /\ termios = "raw"
    /\ guard = "live"
    /\ acquired = 1
    /\ restored = 0
    /\ last_quit = FALSE
    /\ drew = TRUE
    /\ cursor = refresh_screen(editor)
    /\ DecoderIdle
    /\ RowIdle
    /\ e_orig = editor
    /\ e_ops = <<>>

\* one iteration of the loop on the first event
E_Step ==
    /\ e_ops = <<>>
    /\ \E s \in EditKeys :
          /\ Run_Step(s)
          /\ e_ops' = <<s>>
    /\ UNCHANGED e_orig

\* the iteration after it, on a delete-before event (DEL byte)
E_DeleteBefore ==
    /\ Len(e_ops) = 1
    /\ Run_Step(Key(DEL, FALSE))
    /\ e_ops' = Append(e_ops, Key(DEL, FALSE))
    /\ UNCHANGED e_orig

EditNext == E_Step \/ E_DeleteBefore

EditSpec == EditInit /\ [][EditNext]_vars

-----------------------------------------------------------------------------
(* Properties of Spec *)

InLoop == pc = "loop"

\* C1: with screen_rows >= 1 and screen_cols >= 1, after the scroll
\* adjustment of every iteration the cursor row lies in
\* [rowoff, rowoff + screen_rows) and rx in [coloff, coloff + screen_cols),
\* and the cursor position the renderer wrote, (cy - rowoff + 1,
\* rx - coloff + 1), has not underflowed (both are at least 1).
C1_ViewportInvariant ==
    (pc \in {"loop", "clear"} /\ editor.screen_rows >= 1 /\ editor.screen_cols >= 1)
    => /\ editor.rowoff <= editor.cy
       /\ editor.cy < editor.rowoff + editor.screen_rows
       /\ editor.coloff <= editor.rx
       /\ editor.rx < editor.coloff + editor.screen_cols
       /\ cursor = <<editor.cy - editor.rowoff + 1, editor.rx - editor.coloff + 1>>
       /\ cursor[1] >= 1 /\ cursor[2] >= 1

\* the window has scrolled both down and right
C1_Scrolled == InLoop /\ editor.rowoff > 0 /\ editor.coloff > 0

\* C2: in every state the loop reaches, 0 <= cy <= row count, cx is at most
\* the length of row cy when cy is a row, and cx = 0 when cy is past the
\* last row.
C2_CursorInvariant ==
    InLoop
    => /\ 0 <= editor.cy /\ editor.cy <= Len(editor.row)
       /\ 0 <= editor.cx
       /\ editor.cy < Len(editor.row) => editor.cx <= RowLen(editor, editor.cy)
       /\ editor.cy = Len(editor.row) => editor.cx = 0

\* C4: Ctrl-Q dispatched on a clean buffer ends the loop on that press.
C4_QuitCleanTerminates ==
    [][(pc = "loop" /\ last_quit' /\ ~editor.dirty /\ Run_Step(CtrlKey("q")))
       => pc' # "loop"]_vars

Warning == <<"File has unsaved changes! Press Ctrl-Q again to quit">>

\* C5: on a dirty buffer Ctrl-Q leaves the loop (break) exactly when the
\* event dispatched just before it was Ctrl-Q too; otherwise it arms the
\* confirmation and sets the warning; and while the loop runs the
\* confirmation is armed exactly when the latest dispatched event was
\* Ctrl-Q, so any other dispatched event disarms it.
C5_QuitOneShot ==
    [][ /\ (pc = "loop" /\ last_quit' /\ editor.dirty /\ Run_Step(CtrlKey("q")))
           => /\ (pc' = "clear") <=> last_quit
              /\ (~last_quit /\ pc' = "loop")
                 => (editor'.quitting /\ editor'.message = Warning)
        /\ (pc' = "loop") => (editor'.quitting <=> last_quit') ]_vars

\* a dirty buffer with the confirmation armed by the latest event
C5_Armed == InLoop /\ editor.dirty /\ editor.quitting /\ last_quit

\* C6: an iteration that changes the rows of the buffer leaves dirty set,
\* and dirty is cleared in the loop only by a save.
C6_EditsSetDirty ==
    [][ (pc = "loop" /\ pc' = "loop")
        => /\ (Bufs(editor') # Bufs(editor)) => editor'.dirty
           /\ (editor.dirty /\ ~editor'.dirty) => Run_Step(CtrlKey("s")) ]_vars

RECURSIVE TabExpansion(_)
\* the tab expansion of a content string as the specification words it: each
\* tab is padded with spaces to the next multiple of 8 columns, every other
\* character is copied
TabExpansion(content) ==
    IF content = <<>> THEN <<>>
    ELSE LET before == TabExpansion(SubSeq(content, 1, Len(content) - 1))
             c == content[Len(content)]
         IN  IF c = TAB
             THEN before \o [i \in 1..(8 - (Len(before) % 8)) |-> SPACE]
             ELSE Append(before, c)

\* C7: in every reachable state each row's render string is the tab
\* expansion of its content.
C7_RenderCache ==
    pc \in {"main", "opened", "run", "loop", "clear"}
    => \A i \in 1..Len(editor.row) :
          editor.row[i].render = TabExpansion(editor.row[i].buf)

\* an edited row whose tab is padded from column 1 to column 8
C7_EditedTabRow ==
    /\ InLoop /\ editor.dirty
    /\ \E i \in 1..Len(editor.row) :
          /\ editor.row[i].buf = <<Ch("a"), TAB>>
          /\ Len(editor.row[i].render) = 8

\* C8: an Unidentified event changes nothing (rows, cursor, rx, offsets,
\* dirty, the armed flag, the message) and draws no frame.
C8_UnidentifiedNoEffect ==
    [][Run_Step(Unidentified)
       => (UNCHANGED <<editor, cursor, last_quit, pc, exit, termios, guard>>
           /\ ~drew')]_vars

\* an Unidentified event arrived while the confirmation was armed
C8_SkippedWhileArmed == InLoop /\ ~drew /\ editor.quitting /\ last_quit

\* C9: raw mode is acquired at most once, and on every way out after the
\* acquisition the original configuration has been restored exactly once:
\* the program never ends with the terminal in raw mode.
C9_TerminalRestored ==
    /\ acquired <= 1
    /\ restored <= acquired
    /\ termios = "raw" => guard = "live"
    /\ guard = "dropped" => (restored = 1 /\ termios = "orig")
    /\ pc \in {"clear", "exit"} => (termios = "orig" /\ restored = acquired)

\* the program ended by a panic inside the loop, after raw mode was set
C9_PanicRestored == pc = "exit" /\ exit = "panic" /\ acquired = 1 /\ restored = 1

-----------------------------------------------------------------------------
(* Properties of DecoderSpec *)

\* C3: decoding never aborts the program, whatever the bytes: every
\* unrecognized escape sequence yields Unidentified.
C3_DecodeNeverAborts == dpc # "panic" /\ out # Panic

\* the event the decoding table of the specification gives for terminator c
\* and parameter bytes b
TableEvent(c, b) ==
    LET params == split(b, 1, <<>>)
        first == parse_usize(params[1])
    IN  CASE c = Ch("A") -> UpKey
          [] c = Ch("B") -> DownKey
          [] c = Ch("C") -> RightKey
          [] c = Ch("D") -> LeftKey
          [] c = Ch("H") -> HomeKey
          [] c = Ch("F") -> EndKey
          [] c = Ch("~") /\ first = 5 -> PageUpKey
          [] c = Ch("~") /\ first = 6 -> PageDownKey
          [] c = Ch("~") /\ first \in {1, 7} -> HomeKey
          [] c = Ch("~") /\ first \in {4, 8} -> EndKey
          [] c = Ch("~") /\ first = 3 -> DeleteKey
          [] c = Ch("R") /\ Len(params) >= 2 /\ first # None
                /\ parse_usize(params[2]) # None
               -> Cursor(first, parse_usize(params[2]))
          [] OTHER -> Unidentified

\* C10: the event returned for ESC '[' parameters terminator is the one of
\* the decoding table, every other combination giving Unidentified, and an
\* ESC followed by no byte within the timeout gives Key(0x1B, false).
C10_CsiTable ==
    [][ /\ (dpc \in {"csi", "csiO"} /\ dpc' \notin {"csi", "csiO", "err"})
           => out' = TableEvent(cmd', csi_buf)
        /\ (dpc = "esc" /\ dpc' = "read_seq" /\ next_byte' = 0)
           => out' = Key(ESC, FALSE) ]_vars

\* C19: every event the decoder can emit during the loop (every Key, the
\* navigation events, Delete, and Cursor(r, c)) is handled by
\* process_keypress without aborting: the program never ends by a panic.
C19_DispatcherTotal == exit # "panic"

\* C20: the scroll adjustment of an iteration leaves rowoff unchanged when
\* cy is already in [rowoff, rowoff + screen_rows) and coloff unchanged when
\* rx is already in [coloff, coloff + screen_cols); otherwise the offset
\* moves just far enough to put the cursor on the nearest edge (rowoff = cy
\* or cy - screen_rows + 1, and likewise for the columns).
C20_MinimalScroll ==
    [][ (pc \in {"run", "loop"} /\ pc' = "loop" /\ drew')
        => LET cy == editor'.cy
               rx == editor'.rx
           IN  /\ editor'.rowoff =
                     IF cy < editor.rowoff THEN cy
                     ELSE IF cy >= editor.rowoff + editor.screen_rows
                     THEN cy - editor.screen_rows + 1
                     ELSE editor.rowoff
               /\ editor'.coloff =
                     IF rx < editor.coloff THEN rx
                     ELSE IF rx >= editor.coloff + editor.screen_cols
                     THEN rx - editor.screen_cols + 1
                     ELSE editor.coloff ]_vars

\* the view was scrolled down, and the cursor then moved up inside it
C20_KeptOffset ==
    /\ InLoop /\ drew
    /\ editor.screen_rows >= 2
    /\ editor.rowoff > 0
    /\ editor.cy = editor.rowoff

\* C18: when the read after ESC delivers a byte b other than '[', the
\* decoder emits Key(0x1b, false) and keeps b in the pushback slot; the next
\* request decodes the byte of the slot, without reading, exactly as a byte
\* read fresh (ESC starting a new sequence), and empties the slot: no byte
\* is lost or decoded twice.
C18_Pushback ==
    [][ /\ (dpc = "esc" /\ dpc' # "err" /\ last_read' \notin {TimedOut, Ch("[")})
           => /\ dpc' = "read_seq"
              /\ out' = Key(ESC, FALSE)
              /\ next_byte' # 0
              /\ next_byte' = last_read'
        /\ (dpc = "read_seq" /\ next_byte # 0)
           => /\ next_byte' = 0
              /\ last_read' = last_read
              /\ IF next_byte = ESC
                 THEN dpc' = "esc"
                 ELSE dpc' = "read_seq" /\ out' = decode_first(next_byte) ]_vars

\* C21: every request for the next event that has started to decode an
\* escape sequence comes to an end (an event or an error is returned, or the
\* decoder aborts), also on a stream that falls silent after a lone ESC or
\* after ESC '[': the decoder never waits forever on an incomplete sequence.
C21_DecoderProgress ==
    (dpc \in {"esc", "csi", "csiO"}) ~> (dpc \in {"read_seq", "err", "panic"})

-----------------------------------------------------------------------------
(* Properties of RowSpec *)

\* C11: for every row and column c, inserting a character at column c and
\* then deleting the character preceding column c + 1 restores the row's
\* original content, also when c is greater than the row's length (where
\* the insert appends).
C11_InsertDeleteRoundTrip == (rpc = "deleted") => (r_row.buf = r_orig)

\* C14: rx_from_cx is non-decreasing in cx; a tab advances rx to the next
\* multiple of 8 and any other character advances it by exactly 1; so
\* rx_from_cx(row, cx) is the length of the tab expansion of the first cx
\* characters, and at cx = len(content) the length of the render cache.
C14_RxFromCx ==
    (rpc = "measured") =>
        LET n == Len(r_orig)
            k == IF r_at < n THEN r_at ELSE n
            prev == rx_from_cx(r_row, r_at - 1)
        IN  /\ r_rx = Len(TabExpansion(SubSeq(r_orig, 1, k)))
            /\ r_at >= n => r_rx = Len(r_row.render)
            /\ r_at >= 1 => r_rx >= prev
            /\ (1 <= r_at /\ r_at <= n) =>
                  IF r_orig[r_at] = TAB
                  THEN r_rx = TAB_STOP * ((prev \div TAB_STOP) + 1)
                  ELSE r_rx = prev + 1

\* the column after a character, a tab and one more character was measured
C14_MeasuredPastTab ==
    /\ rpc = "measured"
    /\ r_orig = <<Ch("a"), TAB, Ch("a")>>
    /\ r_at = 3
    /\ r_rx = 9

-----------------------------------------------------------------------------
(* Properties of EditSpec *)

\* the first event has been dispatched and the loop goes on
After(keys) == pc = "loop" /\ Len(e_ops) = 1 /\ e_ops[1] \in keys

SameCursor == editor.cx = e_orig.cx /\ editor.cy = e_orig.cy

\* C12: from any cursor position (cy, cx), cy in 0..rowCount, Enter followed
\* at once by a delete-before event restores the buffer's original sequence
\* of rows and their contents.
C12_SplitJoinRoundTrip ==
    (pc = "loop" /\ Len(e_ops) = 2 /\ e_ops[1] = CtrlKey("m"))
    => Bufs(editor) = Bufs(e_orig)

\* C13: Left at (cy, 0) with cy > 0 yields (cy - 1, len(row[cy - 1])) and at
\* (0, 0) leaves the cursor unchanged; Right at the end of a row cy yields
\* (cy + 1, 0) and at cy = rowCount leaves the cursor unchanged.
C13_LineWrap ==
    /\ (After({LeftKey, CtrlKey("b")}) /\ e_orig.cx = 0)
       => IF e_orig.cy > 0
          THEN /\ editor.cy = e_orig.cy - 1
               /\ editor.cx = RowLen(e_orig, e_orig.cy - 1)
          ELSE SameCursor
    /\ After({RightKey, CtrlKey("f")})
       => /\ (e_orig.cy < Len(e_orig.row) /\ e_orig.cx = RowLen(e_orig, e_orig.cy))
             => (editor.cy = e_orig.cy + 1 /\ editor.cx = 0)
          /\ e_orig.cy = Len(e_orig.row) => SameCursor

\* Left was pressed at the start of a row below a row that is not empty
C13_WrappedLeft ==
    /\ After({LeftKey})
    /\ e_orig.cx = 0 /\ e_orig.cy > 0
    /\ editor.cx > 0

\* C15: Home or Ctrl-A sets cx = 0; End or Ctrl-E on a row cy sets
\* cx = len(row[cy]) whatever the screen width; both leave cy and the
\* buffer unchanged.
C15_HomeEnd ==
    /\ After({HomeKey, CtrlKey("a")})
       => (editor.cx = 0 /\ editor.cy = e_orig.cy /\ editor.row = e_orig.row)
    /\ (After({EndKey, CtrlKey("e")}) /\ e_orig.cy < Len(e_orig.row))
       => /\ editor.cx = RowLen(e_orig, e_orig.cy)
          /\ editor.cy = e_orig.cy
          /\ editor.row = e_orig.row

C17_ForwardDelete ==
    (After({DeleteKey, CtrlKey("d")})
       /\ (e_orig.cy < Len(e_orig.row) => e_orig.cx <= RowLen(e_orig, e_orig.cy)))
    => LET b == Bufs(e_orig)
           cy == e_orig.cy
           cx == e_orig.cx
       IN  /\ SameCursor
           /\ Bufs(editor) =
                 IF cy >= Len(b) THEN b
                 ELSE IF cx < Len(b[cy + 1])
                 THEN [b EXCEPT ![cy + 1] = StrRemove(b[cy + 1], cx)]
                 ELSE IF cy + 1 < Len(b)
                 THEN SubSeq(b, 1, cy) \o <<b[cy + 1] \o b[cy + 2]>>
                        \o SubSeq(b, cy + 3, Len(b))
                 ELSE b

=============================================================================
